---- MODULE Spec2Model ----
(***************************************************************************)
(* The operate-env reply command of the violet bot                         *)
(* (pkg/bot/src/cmd/template/operate-env.ts): main starts a CodeBuild job   *)
(* for a pull request, update reconciles an entry against the job, and      *)
(* constructComment renders the entry and the values into a comment.        *)
(*                                                                         *)
(* JavaScript values are modelled as follows.  An optional value (T |       *)
(* undefined) is Undefined or Some(v).  A string that the code only compares or  *)
(* interpolates is a TLA+ string; a string that the code encodes (buildId)  *)
(* is a sequence of UTF-16 code units.  A Date is its number of             *)
(* milliseconds.  A call that throws yields [ok |-> FALSE, error |-> e], one  *)
(* that returns yields [ok |-> TRUE, ...].                                  *)
(***************************************************************************)
EXTENDS Integers, Sequences, FiniteSets, TLC

VARIABLES
    now,        \* the wall clock, in milliseconds
    entry,      \* update: the entry being reconciled
    resp,       \* update: what batchGetBuilds answers for entry.buildId
    res,        \* update: result of the last call since resp last changed
    returned,   \* update: status returned by the latest call on the entry
    calls,      \* update: calls made since resp last changed
    pc,         \* main: where the invocation stands
    ctx,        \* main: the invocation's context (PR number, namespace, uuid)
    apiImageDetail,     \* main: what the lookup of the API image answered
    webImageDetail,     \* main: what the lookup of the web image answered
    lookups,    \* main: image lookups made by the invocation, per repository
    startBuildOutput,   \* main: r, the StartBuildOutput
    mainRes,    \* main: what the invocation returned or threw
    jobs,       \* the job client: the builds started so far, oldest first
    cEntry,     \* constructComment: the entry to render
    cValues,    \* constructComment: the values to render
    comment,    \* constructComment: what the call returned or threw
    rawEntry,   \* entrySchema: the persisted form of an entry, as read back
    validated,  \* entrySchema: what validating rawEntry returned or threw
    store,      \* the entry store: the persisted record under each uuid
    posted,     \* the comment surface: the comment posted for each uuid
    jobRecord,  \* the job client: what batchGetBuilds answers, per build id
    passes      \* the reconciler: its passes, each with its position

updateVars == <<entry, resp, res, returned, calls>>
mainVars ==
    <<pc, ctx, apiImageDetail, webImageDetail, lookups, startBuildOutput, mainRes, jobs>>
commentVars == <<cEntry, cValues, comment>>
schemaVars == <<rawEntry, validated>>
botVars == <<store, posted, jobRecord, passes>>
vars == <<now, updateVars, mainVars, commentVars, schemaVars, botVars>>

\* ------------------------------------------------------------------ bounds
MaxTime == 1            \* Dates range over 0..MaxTime
MaxBuilds == 2          \* batchGetBuilds answers at most MaxBuilds builds
MaxCalls == 2           \* update calls counted since the job record last changed
MaxJobs == 2            \* builds the job client starts

\* ------------------------------------------------------ JavaScript values
Undefined == [js |-> "undefined"]
Null == [js |-> "null"]
Some(x) == [js |-> "value", v |-> x]
IsNullish(x) == x = Undefined \/ x = Null           \* x == null
Opt(S) == {Undefined} \cup {Some(x) : x \in S}

Throw(e) == [called |-> TRUE, ok |-> FALSE, error |-> e]
NoResult == [called |-> FALSE]

Times == 0..MaxTime

\* toTemporalInstant.call(date): the Instant of a Date's epoch milliseconds.
toTemporalInstant(date) == [epochNanoseconds |-> date * 1000000]

\* Temporal.Instant.prototype.until with the default largestUnit 'second':
\* the signed difference, split into seconds and milliseconds.
until(a, b) ==
    LET ms == (b.epochNanoseconds - a.epochNanoseconds) \div 1000000
        abs == IF ms < 0 THEN -ms ELSE ms
        sign == IF ms < 0 THEN -1 ELSE 1
    IN  [seconds |-> sign * (abs \div 1000), milliseconds |-> sign * (abs % 1000)]

\* renderDuration (pkg/bot/src/util/comment-render) is not among the sources;
\* the specification only says that it yields a non-empty duration string.
renderDuration(d) == ToString(d.seconds) \o "s " \o ToString(d.milliseconds) \o "ms"

\* -------------------------------------------------------------- the entry
\* entrySchema: the five required keys, merged with the three optional
\* build outputs, which the operate-env script adds to the stored entry.
\* buildId is a sequence of UTF-16 code units.
BuildIdA == <<112, 58, 97>>                \* "p:a"

TfBuildOutputs ==
    {[apiURL |-> "https://api.example", webURL |-> "https://web.example",
      envRegion |-> "ap-northeast-1", ecsClusterName |-> "cluster",
      apiTaskLogGroupName |-> "log-group"]}
GeneralBuildOutputs == {[sourceZipKey |-> "source.zip"]}
RunTaskBuildOutputs == {"task-id"}

\* The entry main forms (operate-env.ts:110-116): no build output yet.
mkEntry(prNumber, buildId, buildArn, webImageDigest, apiImageDigest) ==
    [prNumber |-> prNumber, buildId |-> buildId, buildArn |-> buildArn,
     webImageDigest |-> webImageDigest, apiImageDigest |-> apiImageDigest,
     generalBuildOutput |-> Undefined, tfBuildOutput |-> Undefined,
     runTaskBuildOutput |-> Undefined]

PrNumbers == {7}
Digests == {"sha256:aa", "sha256:bb"}

\* The entries of the store that the reconciliation passes below work on: one
\* as main wrote it and one after the script has added its build outputs.
StoredEntries ==
    LET e == mkEntry(7, BuildIdA, "arn:aws:codebuild:build/p:a", "sha256:aa", "sha256:bb")
    IN  {e,
         [e EXCEPT !.generalBuildOutput = Some([sourceZipKey |-> "source.zip"]),
                   !.tfBuildOutput = Some(CHOOSE t \in TfBuildOutputs : TRUE),
                   !.runTaskBuildOutput = Some("task-id")]}

\* -------------------------------------------------- the external job client
\* One Build of a BatchGetBuildsOutput, with the members update reads.
BuildStatusStrings ==
    {"SUCCEEDED", "FAILED", "IN_PROGRESS", "STOPPED", "constructor"}
DeepLinks == {"https://logs.example/deep"}
LogsLocations == {[deepLink |-> l] : l \in Opt(DeepLinks)}

Builds ==
    [buildStatus : Opt(BuildStatusStrings), startTime : Opt(Times),
     endTime : Opt(Times), logs : Opt(LogsLocations)]

\* The builds before the last one of an answer: update reads nothing of them
\* but the first one's startTime, so they are taken among the builds without
\* logs whose endTime is their startTime.
EarlierBuilds ==
    {b \in Builds : /\ b.logs = Undefined
                    /\ b.endTime = b.startTime
                    /\ b.buildStatus \in {Undefined, Some("SUCCEEDED")}}

\* A build as startBuild leaves it.
NewBuilds ==
    {b \in Builds : /\ b.logs = Undefined
                    /\ b.endTime = Undefined
                    /\ b.buildStatus = Some("IN_PROGRESS")}

RECURSIVE EarlierLists(_)
EarlierLists(n) ==
    IF n = 0 THEN {<<>>}
    ELSE {Append(l, e) : l \in EarlierLists(n - 1), e \in EarlierBuilds}

BuildLists ==
    {<<>>} \cup
    UNION {{Append(l, b) : l \in EarlierLists(k), b \in Builds} : k \in 0..(MaxBuilds - 1)}

\* BatchGetBuildsOutput: builds is optional.
BatchGetBuildsOutputs ==
    {[builds |-> Undefined]} \cup {[builds |-> Some(bs)] : bs \in BuildLists}

\* ------------------------------------------------------------------ update
\* operate-env.ts:223  ({ SUCCEEDED: 'success', FAILED: 'failure' })[key]:
\* a property read on an object literal finds the literal's own properties
\* and, failing that, the properties it inherits from Object.prototype.
statusTable == [SUCCEEDED |-> "success", FAILED |-> "failure"]
ObjectPrototypeKeys ==
    {"constructor", "toString", "valueOf", "hasOwnProperty", "__proto__"}
Get(key) ==
    IF key \in DOMAIN statusTable THEN Some(statusTable[key])
    ELSE IF key \in ObjectPrototypeKeys THEN Some("Object.prototype." \o key)
    ELSE Undefined

\* A slip: a stopped build is taken for a failed one.
resultStatus_StoppedFails(last) ==
    LET found == Get(IF last.buildStatus.v = "STOPPED" THEN "FAILED"
                     ELSE last.buildStatus.v)
    IN  IF IsNullish(found) THEN "undone" ELSE found.v

\* A slip: SUCCEEDED counts as success only once the build has an endTime.
resultStatus_NeedsEndTime(last) ==
    LET found == Get(last.buildStatus.v)
    IN  IF IsNullish(found) \/ (found.v = "success" /\ IsNullish(last.endTime))
        THEN "undone" ELSE found.v

\* operate-env.ts:223  ...[last.buildStatus] ?? 'undone'
resultStatus(last) ==
    LET found == Get(last.buildStatus.v)
    IN  IF IsNullish(found) THEN "undone" ELSE found.v

\* operate-env.ts:201-209
computeBuiltInfo(firstStartTime, lastStartTime, lastEndTime) ==
    LET timeRange ==
            renderDuration(
                until(toTemporalInstant(firstStartTime.v),
                      toTemporalInstant(IF IsNullish(lastEndTime) THEN lastStartTime.v
                                        ELSE lastEndTime.v)))
    IN  [timeRange |-> timeRange]

\* A slip: the build info is computed only on the pass that first sees the
\* success, and left out on the passes after it.
builtInfoOf_OnTransition(first, last) ==
    IF last.buildStatus = Some("SUCCEEDED") /\ returned # "success"
    THEN Some(computeBuiltInfo(first.startTime, last.startTime, last.endTime))
    ELSE Null

\* A slip: the build info is computed for every finished build.
builtInfoOf_Terminal(first, last) ==
    IF last.buildStatus \in {Some("SUCCEEDED"), Some("FAILED")}
    THEN Some(computeBuiltInfo(first.startTime, last.startTime, last.endTime))
    ELSE Null

\* operate-env.ts:212
builtInfoOf(first, last) ==
    IF last.buildStatus = Some("SUCCEEDED")
    THEN Some(computeBuiltInfo(first.startTime, last.startTime, last.endTime))
    ELSE Null

\* operate-env.ts:215-220
updateValues(first, last) ==
    [buildStatus |-> last.buildStatus.v,
     statusChangedAt |->
        toTemporalInstant(IF IsNullish(last.endTime) THEN last.startTime.v
                          ELSE last.endTime.v),
     deepLogLink |-> IF IsNullish(last.logs) THEN Undefined ELSE last.logs.v.deepLink,
     builtInfo |-> builtInfoOf(first, last)]

\* A slip: the entry is formed anew from its required keys, as main does.
resultEntry_Rebuilt(e) ==
    mkEntry(e.prNumber, e.buildId, e.buildArn, e.webImageDigest, e.apiImageDigest)

\* operate-env.ts:224  the entry of the result is the entry passed in.
resultEntry(e) == e

\* operate-env.ts:191-199  the checks that throw, in the code's order; reading
\* last.buildStatus of an empty list throws the engine's own TypeError.
updateError(r) ==
    IF IsNullish(r.builds) THEN Some("TypeError: builds not found")
    ELSE LET builds == r.builds.v IN
         IF Len(builds) = 0
         THEN Some("TypeError: Cannot read properties of undefined (reading 'buildStatus')")
         ELSE LET first == builds[1]
                  last == builds[Len(builds)]
              IN  IF last.buildStatus = Undefined
                  THEN Some("TypeError: CodeBuild last buildStatus is not string")
                  ELSE IF IsNullish(first.startTime)
                  THEN Some("TypeError: CodeBuild first startTime is not found")
                  ELSE IF IsNullish(last.startTime)
                  THEN Some("TypeError: CodeBuild last startTime is not found")
                  ELSE Undefined

\* operate-env.ts:215-226  the result of a call that passed the checks.
updateResult(e, r) ==
    LET builds == r.builds.v
        first == builds[1]
        last == builds[Len(builds)]
    IN  [called |-> TRUE, ok |-> TRUE,
         status |-> resultStatus(last),
         entry |-> resultEntry(e),
         values |-> updateValues(first, last)]

\* A slip: a malformed answer is swallowed and reported as a job in flight.
update_SilentUndone(e, r) ==
    IF updateError(r) # Undefined
    THEN [called |-> TRUE, ok |-> TRUE, status |-> "undone", entry |-> e,
          values |-> [buildStatus |-> "UNKNOWN",
                      statusChangedAt |-> toTemporalInstant(now),
                      deepLogLink |-> Undefined, builtInfo |-> Null]]
    ELSE updateResult(e, r)

\* operate-env.ts:183-227  update(entry, ctx), with r the answer of
\* codeBuild.batchGetBuilds({ ids: [entry.buildId] }).
update(e, r) ==
    LET err == updateError(r)
    IN  IF err # Undefined THEN Throw(err.v) ELSE updateResult(e, r)

\* -------------------------------------------------------- constructComment
\* operate-env.ts:21
imageRegion == "ap-northeast-1"

\* ctx.env (ComputedAfterwardBotEnv, shared/lib/bot/env.ts:22-31)
env ==
    [API_REPO_NAME |-> "violet-api", WEB_REPO_NAME |-> "violet-web",
     OPERATE_ENV_PROJECT_NAME |-> "violet-operate-env"]

\* The hexadecimal digit (a code unit, upper case) of n in 0..15.
hexDigit(n) == IF n < 10 THEN 48 + n ELSE 55 + n

\* "%XX" for one byte.
percent(byte) == <<37, hexDigit(byte \div 16), hexDigit(byte % 16)>>

\* The UTF-8 bytes of a code point, percent-encoded.
utf8(cp) ==
    IF cp < 128 THEN percent(cp)
    ELSE IF cp < 2048 THEN percent(192 + (cp \div 64)) \o percent(128 + (cp % 64))
    ELSE IF cp < 65536
    THEN percent(224 + (cp \div 4096)) \o percent(128 + ((cp \div 64) % 64))
         \o percent(128 + (cp % 64))
    ELSE percent(240 + (cp \div 262144)) \o percent(128 + ((cp \div 4096) % 64))
         \o percent(128 + ((cp \div 64) % 64)) \o percent(128 + (cp % 64))

\* A-Z a-z 0-9 - _ . ! ~ * ' ( )
uriUnreserved(c) ==
    \/ c \in 65..90
    \/ c \in 97..122
    \/ c \in 48..57
    \/ c \in {45, 95, 46, 33, 126, 42, 39, 40, 41}

\* encodeURIComponent (ECMA-262 Encode) from the i-th code unit of str on: a
\* surrogate that is not half of a pair throws a URIError.
RECURSIVE encodeFrom(_, _)
encodeFrom(str, i) ==
    IF i > Len(str) THEN [ok |-> TRUE, v |-> <<>>]
    ELSE LET c == str[i] IN
         IF uriUnreserved(c)
         THEN LET rest == encodeFrom(str, i + 1)
              IN  IF rest.ok THEN [ok |-> TRUE, v |-> <<c>> \o rest.v] ELSE rest
         ELSE IF c \in 56320..57343
         THEN [ok |-> FALSE, error |-> "URIError: URI malformed"]
         ELSE IF c \in 55296..56319
         THEN IF i + 1 > Len(str) \/ str[i + 1] \notin 56320..57343
              THEN [ok |-> FALSE, error |-> "URIError: URI malformed"]
              ELSE LET cp == (c - 55296) * 1024 + (str[i + 1] - 56320) + 65536
                       rest == encodeFrom(str, i + 2)
                   IN  IF rest.ok THEN [ok |-> TRUE, v |-> utf8(cp) \o rest.v] ELSE rest
         ELSE LET rest == encodeFrom(str, i + 1)
              IN  IF rest.ok THEN [ok |-> TRUE, v |-> utf8(c) \o rest.v] ELSE rest

\* operate-env.ts:134  encodeURIComponent(entry.buildId)
encodeURIComponent(str) == encodeFrom(str, 1)

\* `${x}` for x a string, null or undefined.
Str(x) == IF x = Undefined THEN "undefined" ELSE IF x = Null THEN "null" ELSE x.v

\* x && y for x an object, null or undefined.
AndObject(x, y) == IF IsNullish(x) THEN x ELSE y

\* x && y for x a string, null or undefined: the empty string is falsy too.
AndString(x, y) == IF IsNullish(x) \/ x.v = "" THEN x ELSE y

\* renderTimestamp and renderECRImageDigest (pkg/bot/src/util/comment-render)
\* are not among the sources: each renders its argument into a string.
renderTimestamp(instant) == "<t:" \o ToString(instant.epochNanoseconds \div 1000000) \o ">"
renderECRImageDigest(image) ==
    "[" \o image.imageDigest \o "](https://" \o image.imageRegion
    \o ".console.aws.amazon.com/ecr/repositories/private/" \o image.imageRepoName
    \o "/_/image/" \o image.imageDigest \o "/details)"

\* operate-env.ts:132-134  buildUrl, with build the encoded buildId.
buildUrl(build) ==
    [region |-> "ap-northeast-1", project |-> env.OPERATE_ENV_PROJECT_NAME,
     build |-> build]

\* A slip: the build-time element is put before the build-status line.
commentMain_TimeFirst(e, values) ==
    <<AndObject(values.builtInfo,
                [line |-> "buildTime",
                 timeRange |-> IF IsNullish(values.builtInfo) THEN ""
                               ELSE values.builtInfo.v.timeRange]),
      [line |-> "buildStatus", buildStatus |-> values.buildStatus,
       statusChangedAt |-> renderTimestamp(values.statusChangedAt)]>>
    \o (IF ~IsNullish(e.tfBuildOutput)
        THEN <<[line |-> "api", apiURL |-> e.tfBuildOutput.v.apiURL],
               [line |-> "web", webURL |-> e.tfBuildOutput.v.webURL]>>
        ELSE <<>>)

\* operate-env.ts:137-143  main.  A line is a record of the template literal's
\* name and of the strings interpolated into it.
commentMain(e, values) ==
    <<[line |-> "buildStatus", buildStatus |-> values.buildStatus,
       statusChangedAt |-> renderTimestamp(values.statusChangedAt)],
      AndObject(values.builtInfo,
                [line |-> "buildTime",
                 timeRange |-> IF IsNullish(values.builtInfo) THEN ""
                               ELSE values.builtInfo.v.timeRange])>>
    \o (IF ~IsNullish(e.tfBuildOutput)
        THEN <<[line |-> "api", apiURL |-> e.tfBuildOutput.v.apiURL],
               [line |-> "web", webURL |-> e.tfBuildOutput.v.webURL]>>
        ELSE <<>>)

\* A slip: the line is emitted whether or not there is a link.
deepLogLine_Always(values) ==
    [line |-> "deepLogLink", deepLogLink |-> Str(values.deepLogLink)]

\* operate-env.ts:176  values.deepLogLink && `- [...](${values.deepLogLink})`
deepLogLine(values) ==
    AndString(values.deepLogLink,
              [line |-> "deepLogLink", deepLogLink |-> Str(values.deepLogLink)])

\* operate-env.ts:148-177  hints[0].body.main
hintsMain(e, values, url) ==
    <<[line |-> "buildId", buildId |-> e.buildId, buildUrl |-> url]>>
    \o (IF ~IsNullish(e.tfBuildOutput)
        THEN <<[line |-> "ecsCluster",
                ecsClusterName |-> e.tfBuildOutput.v.ecsClusterName,
                envRegion |-> e.tfBuildOutput.v.envRegion]>>
        ELSE <<>>)
    \o <<[line |-> "webImageDigest",
          webImage |-> renderECRImageDigest(
              [imageRegion |-> imageRegion, imageDigest |-> e.webImageDigest,
               imageRepoName |-> env.WEB_REPO_NAME])],
         [line |-> "apiImageDigest",
          apiImage |-> renderECRImageDigest(
              [imageRegion |-> imageRegion, imageDigest |-> e.apiImageDigest,
               imageRepoName |-> env.API_REPO_NAME])],
         AndObject(e.generalBuildOutput,
                   [line |-> "infraVersion",
                    sourceZipKey |-> IF IsNullish(e.generalBuildOutput) THEN ""
                                     ELSE e.generalBuildOutput.v.sourceZipKey])>>
    \o (IF ~IsNullish(e.tfBuildOutput) /\ ~IsNullish(e.runTaskBuildOutput)
           /\ e.runTaskBuildOutput.v # ""
        THEN <<[line |-> "runTaskLog",
                logRegion |-> e.tfBuildOutput.v.envRegion,
                apiTaskLogGroupName |-> e.tfBuildOutput.v.apiTaskLogGroupName,
                runTaskBuildOutput |-> Str(e.runTaskBuildOutput)]>>
        ELSE <<>>)
    \o <<deepLogLine(values)>>

\* operate-env.ts:129-182  constructComment(entry, values, ctx)
constructComment(e, values) ==
    LET build == encodeURIComponent(e.buildId) IN
    IF ~build.ok THEN Throw(build.error)
    ELSE [called |-> TRUE, ok |-> TRUE,
          main |-> commentMain(e, values),
          hints |-> <<[title |-> "details",
                       body |-> [main |-> hintsMain(e, values, buildUrl(build.v))]]>>]

\* The entries and the values constructComment is given: every combination
\* of the optional members, and build ids of every kind of code unit.
CommentBuildIds ==
    {BuildIdA,                      \* "p:a"
     <<233>>,                       \* U+00E9
     <<55357, 56832>>,              \* U+1F600 as a surrogate pair
     <<97, 55296>>,                 \* "a" and a high surrogate without its pair
     <<56320>>}                     \* a low surrogate on its own

CommentEntries ==
    {[mkEntry(7, id, "arn:aws:codebuild:build/p:a", "sha256:aa", "sha256:bb")
        EXCEPT !.generalBuildOutput = g, !.tfBuildOutput = t, !.runTaskBuildOutput = k] :
        id \in CommentBuildIds, g \in Opt(GeneralBuildOutputs),
        t \in Opt(TfBuildOutputs), k \in Opt(RunTaskBuildOutputs)}

BuiltInfos == {[timeRange |-> renderDuration(until(toTemporalInstant(0), toTemporalInstant(t)))] :
                  t \in Times}

CommentValuess ==
    [buildStatus : {"IN_PROGRESS", "SUCCEEDED"},
     statusChangedAt : {toTemporalInstant(t) : t \in Times},
     deepLogLink : {Undefined, Null, Some("")} \cup {Some(l) : l \in DeepLinks},
     builtInfo : {Undefined, Null} \cup {Some(b) : b \in BuiltInfos}]

\* No call of constructComment has taken place.
CommentIdle ==
    /\ cEntry = Undefined
    /\ cValues = Undefined
    /\ comment = NoResult

CommentInit ==
    /\ cEntry \in CommentEntries
    /\ cValues \in CommentValuess
    /\ comment = NoResult

ConstructComment ==
    /\ comment = NoResult
    /\ comment' = constructComment(cEntry, cValues)
    /\ UNCHANGED <<now, cEntry, cValues, updateVars, mainVars, schemaVars, botVars>>

\* -------------------------------------------------------------------- main
\* What getImageDetailByTag answers: the image's detail, or null when the
\* repository holds no image with the tag.
ImageDetails == {[imageDigest |-> d] : d \in Digests}
ImageLookups == {Null} \cup {Some(i) : i \in ImageDetails}

Uuids == {"uuid-1", "uuid-2"}
Namespaces == {"pr7"}
Contexts == [prNumber : PrNumbers, namespace : Namespaces, uuid : Uuids]
NoContext == [idle |-> TRUE]

\* toCodeBuildEnv (shared/lib/util/aws-cdk) is not among the sources: it
\* turns a record of variables into the list of {name, value} overrides,
\* in the order of the record's keys.
toCodeBuildEnv(names, record) ==
    [i \in 1..Len(names) |-> [name |-> names[i], value |-> record[names[i]]]]

\* operate-env.ts:87-100  environmentVariablesOverride
environmentVariablesOverride(c, api, web) ==
    toCodeBuildEnv(<<"ENTRY_UUID">>, [ENTRY_UUID |-> c.uuid])
    \o toCodeBuildEnv(<<"OPERATION">>, [OPERATION |-> "deploy"])
    \o toCodeBuildEnv(<<"TERRAFORM_VERSION", "NAMESPACE", "API_REPO_SHA", "WEB_REPO_SHA">>,
                      [TERRAFORM_VERSION |-> "1.0.9", NAMESPACE |-> c.namespace,
                       API_REPO_SHA |-> api.imageDigest,
                       WEB_REPO_SHA |-> web.imageDigest])

\* The value of the override called name.
override(overrides, name) ==
    LET i == CHOOSE k \in 1..Len(overrides) : overrides[k].name = name
    IN  overrides[i].value

\* The builds the job client can start: the n-th one has its own id and arn.
BuildIdB == <<112, 58, 98>>                \* "p:b"
BuildIdC == <<112, 58, 99>>                \* "p:c"
jobId(n) == CASE n = 1 -> BuildIdA [] n = 2 -> BuildIdB [] OTHER -> BuildIdC
jobArn(n) == "arn:aws:codebuild:build/p:" \o ToString(n)

\* The StartBuildOutput for the build just started: the build's description,
\* whole or with a member missing, or no build at all.
InitialStatuses == {"IN_PROGRESS", "SUCCEEDED", "FAILED"}
StartBuildOutputs(job) ==
    LET whole == {[buildStatus |-> Some(s), id |-> Some(job.id), arn |-> Some(job.arn),
                   startTime |-> Some(now)] : s \in InitialStatuses}
    IN  {[build |-> Undefined]} \cup
        {[build |-> Some(b)] : b \in whole}
        \cup {[build |-> Some([b EXCEPT !.buildStatus = Undefined])] : b \in whole}
        \cup {[build |-> Some([b EXCEPT !.id = Undefined])] : b \in whole}
        \cup {[build |-> Some([b EXCEPT !.arn = Undefined])] : b \in whole}
        \cup {[build |-> Some([b EXCEPT !.startTime = Undefined])] : b \in whole}

\* operate-env.ts:103-108  the checks on the StartBuildOutput, in order.
startBuildError(out) ==
    IF IsNullish(out.build)
    THEN Some("TypeError: Response not found for CodeBuild.startBuild")
    ELSE LET build == out.build.v IN
         IF build.buildStatus = Undefined
         THEN Some("TypeError: CodeBuild response buildStatus is not string")
         ELSE IF build.id = Undefined
         THEN Some("TypeError: CodeBuild response id is not string")
         ELSE IF build.arn = Undefined
         THEN Some("TypeError: CodeBuild response arn is not string")
         ELSE IF IsNullish(build.startTime)
         THEN Some("TypeError: CodeBuild response startTime is not Date")
         ELSE Undefined

\* A slip: the two digests change places.
mainEntry_Swapped(c, build, api, web) ==
    mkEntry(c.prNumber, build.id.v, build.arn.v, api.imageDigest, web.imageDigest)

\* operate-env.ts:110-116
mainEntry(c, build, api, web) ==
    mkEntry(c.prNumber, build.id.v, build.arn.v, web.imageDigest, api.imageDigest)

\* operate-env.ts:118-121
mainValues(build) ==
    [buildStatus |-> build.buildStatus.v,
     statusChangedAt |-> toTemporalInstant(build.startTime.v)]

\* operate-env.ts:123  the status main returns.
mainStatus(build) == "undone"

\* A slip: an incomplete StartBuildOutput is swallowed and reported 'undone'.
mainResult_Swallowed(c, out, api, web) ==
    IF startBuildError(out) # Undefined
    THEN [called |-> TRUE, ok |-> TRUE, status |-> "undone"]
    ELSE [called |-> TRUE, ok |-> TRUE,
          status |-> mainStatus(out.build.v),
          entry |-> mainEntry(c, out.build.v, api, web),
          values |-> mainValues(out.build.v)]

\* operate-env.ts:103-127  what main returns or throws on the StartBuildOutput.
mainResult(c, out, api, web) ==
    LET err == startBuildError(out) IN
    IF err # Undefined THEN Throw(err.v)
    ELSE [called |-> TRUE, ok |-> TRUE,
          status |-> mainStatus(out.build.v),
          entry |-> mainEntry(c, out.build.v, api, web),
          values |-> mainValues(out.build.v)]

NoLookups == [api |-> 0, web |-> 0]

\* Nothing has been validated, stored, posted or reconciled.
SchemaIdle ==
    /\ rawEntry = Undefined
    /\ validated = NoResult
BotIdle ==
    /\ store = [u \in Uuids |-> Undefined]
    /\ posted = [u \in Uuids |-> Undefined]
    /\ jobRecord = <<>>
    /\ passes = <<>>

\* No invocation of main has taken place.
MainIdle ==
    /\ pc = "done"
    /\ ctx = NoContext
    /\ apiImageDetail = Undefined
    /\ webImageDetail = Undefined
    /\ lookups = NoLookups
    /\ startBuildOutput = Undefined
    /\ mainRes = NoResult
    /\ jobs = <<>>

\* operate-env.ts:58-60  an invocation of main begins.
MainInvoke ==
    /\ pc = "done"
    /\ Len(jobs) < MaxJobs
    /\ \E c \in Contexts : ctx' = c
    /\ pc' = "api"
    /\ apiImageDetail' = Undefined
    /\ webImageDetail' = Undefined
    /\ lookups' = NoLookups
    /\ startBuildOutput' = Undefined
    /\ mainRes' = NoResult
    /\ UNCHANGED <<now, jobs, updateVars, commentVars, schemaVars, botVars>>

\* A slip: main looks the API image up again instead of failing.
afterApiImage_Retry(found) ==
    IF IsNullish(found) THEN [pc |-> "api", mainRes |-> mainRes]
    ELSE [pc |-> "web", mainRes |-> mainRes]

\* A slip: the error of the missing API image is noted, and main goes on to
\* the web image instead of ending.
afterApiImage_GoesOn(found) ==
    IF IsNullish(found)
    THEN [pc |-> "web", mainRes |-> Throw("Error: Image for API not found.")]
    ELSE [pc |-> "web", mainRes |-> mainRes]

\* operate-env.ts:71  if (!apiImageDetail) throw new Error(...)
afterApiImage(found) ==
    IF IsNullish(found)
    THEN [pc |-> "done", mainRes |-> Throw("Error: Image for API not found.")]
    ELSE [pc |-> "web", mainRes |-> mainRes]

\* operate-env.ts:82  if (!webImageDetail) throw new Error(...)
afterWebImage(found) ==
    IF IsNullish(found)
    THEN [pc |-> "done", mainRes |-> Throw("Error: Image for WEB not found.")]
    ELSE [pc |-> "build", mainRes |-> mainRes]

\* operate-env.ts:62-71  the API image is looked up by the namespace's tag.
MainApiImage ==
    /\ pc = "api"
    /\ \E found \in ImageLookups :
        /\ apiImageDetail' = found
        /\ lookups' = [lookups EXCEPT !.api = @ + 1]
        /\ mainRes' = afterApiImage(found).mainRes
        /\ pc' = afterApiImage(found).pc
    /\ UNCHANGED <<now, ctx, webImageDetail, startBuildOutput, jobs, updateVars, commentVars, schemaVars, botVars>>

\* operate-env.ts:73-82  the web image is looked up by the same tag.
MainWebImage ==
    /\ pc = "web"
    /\ \E found \in ImageLookups :
        /\ webImageDetail' = found
        /\ lookups' = [lookups EXCEPT !.web = @ + 1]
        /\ mainRes' = afterWebImage(found).mainRes
        /\ pc' = afterWebImage(found).pc
    /\ UNCHANGED <<now, ctx, apiImageDetail, startBuildOutput, jobs, updateVars, commentVars, schemaVars, botVars>>

\* operate-env.ts:84-127  the job client starts the build with the overrides
\* and answers; main checks the answer and returns or throws.
MainStartBuild ==
    /\ pc = "build"
    /\ LET job == [id |-> jobId(Len(jobs) + 1), arn |-> jobArn(Len(jobs) + 1),
                   projectName |-> env.OPERATE_ENV_PROJECT_NAME,
                   environmentVariablesOverride |->
                       environmentVariablesOverride(ctx, apiImageDetail.v, webImageDetail.v)]
       IN  /\ jobs' = Append(jobs, job)
           /\ \E out \in StartBuildOutputs(job) :
                /\ startBuildOutput' = Some(out)
                /\ mainRes' = mainResult(ctx, out, apiImageDetail.v, webImageDetail.v)
    /\ pc' = "done"
    /\ UNCHANGED <<now, ctx, apiImageDetail, webImageDetail, lookups, updateVars, commentVars, schemaVars, botVars>>

\* Time passes.
Tick ==
    /\ now < MaxTime
    /\ now' = now + 1
    /\ UNCHANGED <<updateVars, mainVars, commentVars, schemaVars, botVars>>

Init ==
    /\ now = 0
    /\ MainIdle
    /\ entry = Undefined
    /\ resp = [builds |-> Undefined]
    /\ res = NoResult
    /\ returned = "none"
    /\ calls = 0
    /\ CommentIdle
    /\ SchemaIdle
    /\ BotIdle

Next ==
    \/ MainInvoke
    \/ MainApiImage
    \/ MainWebImage
    \/ MainStartBuild
    \/ Tick

Spec == Init /\ [][Next]_vars

\* C5: when the lookup of the API image or of the web image answers no image,
\* main has thrown its explicit error, has returned no entry, and has looked
\* each image up at most once.
C5_MissingImageFails ==
    /\ apiImageDetail = Null =>
          /\ pc = "done"
          /\ mainRes = Throw("Error: Image for API not found.")
          /\ lookups = [api |-> 1, web |-> 0]
    /\ webImageDetail = Null =>
          /\ pc = "done"
          /\ mainRes = Throw("Error: Image for WEB not found.")
          /\ lookups = [api |-> 1, web |-> 1]

C5_WebImageMissing ==
    /\ pc = "done"
    /\ apiImageDetail \in {Some(i) : i \in ImageDetails}
    /\ webImageDetail = Null
    /\ ~mainRes.ok

\* The StartBuildOutput is complete: a build with status, id, arn and startTime.
Complete(out) ==
    /\ out.build # Undefined
    /\ out.build.v.buildStatus # Undefined
    /\ out.build.v.id # Undefined
    /\ out.build.v.arn # Undefined
    /\ out.build.v.startTime # Undefined

\* C6: when both images resolve and the StartBuildOutput is complete, main
\* returns 'undone', whatever status the output reports, with an entry that
\* holds the digests resolved in this invocation, which are the digests
\* passed to the build, and the id and arn of the build just started.
C6_MainReturnsEntry ==
    (pc = "done" /\ startBuildOutput # Undefined /\ Complete(startBuildOutput.v)) =>
        LET job == jobs[Len(jobs)] IN
        /\ mainRes.ok
        /\ mainRes.status = "undone"
        /\ mainRes.entry.webImageDigest = webImageDetail.v.imageDigest
        /\ mainRes.entry.apiImageDigest = apiImageDetail.v.imageDigest
        /\ override(job.environmentVariablesOverride, "WEB_REPO_SHA")
              = mainRes.entry.webImageDigest
        /\ override(job.environmentVariablesOverride, "API_REPO_SHA")
              = mainRes.entry.apiImageDigest
        /\ mainRes.entry.buildId = job.id
        /\ mainRes.entry.buildArn = job.arn
        /\ mainRes.entry.prNumber = ctx.prNumber

C6_ReturnedForFinishedBuild ==
    /\ pc = "done"
    /\ mainRes.called
    /\ mainRes.ok
    /\ startBuildOutput.v.build.v.buildStatus = Some("SUCCEEDED")
    /\ mainRes.entry.webImageDigest # mainRes.entry.apiImageDigest
    /\ Len(jobs) = 2

StartBuildTypeErrors ==
    {"TypeError: CodeBuild response buildStatus is not string",
     "TypeError: CodeBuild response id is not string",
     "TypeError: CodeBuild response arn is not string",
     "TypeError: CodeBuild response startTime is not Date"}

\* C13: when the job client has accepted the start request and its
\* StartBuildOutput is incomplete (no build, or a build without status, id,
\* arn or startTime), main has thrown one of its explicit TypeErrors and has
\* returned neither an entry nor values.
C13_IncompleteOutputThrows ==
    (pc = "done" /\ startBuildOutput # Undefined /\ ~Complete(startBuildOutput.v)) =>
        /\ mainRes.called
        /\ ~mainRes.ok
        /\ DOMAIN mainRes = {"called", "ok", "error"}
        /\ IF startBuildOutput.v.build = Undefined
           THEN mainRes.error = "TypeError: Response not found for CodeBuild.startBuild"
           ELSE mainRes.error \in StartBuildTypeErrors

C13_AcceptedWithoutStartTime ==
    /\ pc = "done"
    /\ Len(jobs) = 1
    /\ startBuildOutput # Undefined
    /\ startBuildOutput.v.build # Undefined
    /\ startBuildOutput.v.build.v.startTime = Undefined
    /\ mainRes = Throw("TypeError: CodeBuild response startTime is not Date")

ImageErrors == {"Error: Image for API not found.", "Error: Image for WEB not found."}
Resolved(found) == found \in {Some(i) : i \in ImageDetails}

\* C19: the start-build request is issued only from a state in which this
\* invocation has looked both images up, each once, and each lookup has
\* answered an image, and the request carries the two digests; an invocation
\* that has failed on a missing image has issued no start-build request; a
\* missing API image ends the invocation with the web image never looked up.
C19_ImagesBeforeStart ==
    [][/\ (jobs' # jobs) =>
            /\ pc = "build"
            /\ Resolved(apiImageDetail)
            /\ Resolved(webImageDetail)
            /\ lookups = [api |-> 1, web |-> 1]
            /\ UNCHANGED <<apiImageDetail, webImageDetail, lookups>>
            /\ Len(jobs') = Len(jobs) + 1
            /\ startBuildOutput = Undefined
            /\ startBuildOutput' # Undefined
            /\ override(jobs'[Len(jobs')].environmentVariablesOverride, "API_REPO_SHA")
                  = apiImageDetail.v.imageDigest
            /\ override(jobs'[Len(jobs')].environmentVariablesOverride, "WEB_REPO_SHA")
                  = webImageDetail.v.imageDigest
       /\ (mainRes'.called /\ ~mainRes'.ok /\ mainRes'.error \in ImageErrors) =>
            /\ startBuildOutput' = Undefined
            /\ jobs' = jobs
       /\ (apiImageDetail' = Null) =>
            /\ webImageDetail' = Undefined
            /\ lookups'.web = 0
            /\ pc' = "done"]_vars

C19_StartedAfterBothImages ==
    /\ pc = "done"
    /\ Len(jobs) = 2
    /\ Resolved(apiImageDetail)
    /\ Resolved(webImageDetail)
    /\ startBuildOutput # Undefined
    /\ mainRes.called
    /\ mainRes.ok

\* C20: whenever an invocation of main has failed, it has started no
\* external build job; a job it started is the one its entry names.
C20_NoOrphanedJobs ==
    (pc = "done" /\ mainRes.called) =>
        IF mainRes.ok
        THEN /\ startBuildOutput # Undefined
             /\ mainRes.entry.buildId = jobs[Len(jobs)].id
        ELSE startBuildOutput = Undefined

\* ------------------------------------------------------------ entrySchema
\* A persisted value carries its type: a number, a string or an object.
JNum(n) == [t |-> "number", num |-> n]
JStr(x) == [t |-> "string", str |-> x]
JObj(o) == [t |-> "object", obj |-> o]
unwrap(j) == CASE j.t = "number" -> j.num [] j.t = "string" -> j.str [] OTHER -> j.obj

\* operate-env.ts:24-30  the keys z.object requires, each with its type.
requiredKeys ==
    [prNumber |-> "number", buildId |-> "string", buildArn |-> "string",
     webImageDigest |-> "string", apiImageDigest |-> "string"]

\* operate-env.ts:31-33  the keys the three merged build-output schemas add.
\* The schemas (shared/lib/operate-env/build-output) are not among the
\* sources; each declares one optional object under the key the renderer
\* tests before use (operate-env.ts:142, 154, 165, 166).
buildOutputKeys == {"generalBuildOutput", "tfBuildOutput", "runTaskBuildOutput"}

\* The persisted form of an entry: every member that is not undefined, with
\* its type.  The store's marshalling is not among the sources.
serialize(e) ==
    [k \in DOMAIN requiredKeys \cup {o \in buildOutputKeys : e[o] # Undefined} |->
        IF k \in DOMAIN requiredKeys
        THEN (IF requiredKeys[k] = "number" THEN JNum(e[k]) ELSE JStr(e[k]))
        ELSE JObj(e[k].v)]

\* The item put under a uuid: the table's hash key is the attribute uuid
\* (violet-manager.ts:308-319), so the item carries it beside the entry.
storeItem(u, e) ==
    LET ser == serialize(e)
    IN  [k \in DOMAIN ser \cup {"uuid"} |-> IF k = "uuid" THEN JStr(u) ELSE ser[k]]

\* The keys of a record that fail the schema.
issues(raw) ==
    {k \in DOMAIN requiredKeys : k \notin DOMAIN raw \/ raw[k].t # requiredKeys[k]}
    \cup {k \in buildOutputKeys : k \in DOMAIN raw /\ raw[k].t # "object"}

\* A slip: the schema lets keys it does not declare pass through.
validateEntry_Passthrough(raw) ==
    IF issues(raw) # {} THEN Throw("ZodError")
    ELSE [called |-> TRUE, ok |-> TRUE,
          entry |-> [k \in DOMAIN requiredKeys \cup buildOutputKeys \cup DOMAIN raw |->
                        IF k \in buildOutputKeys
                        THEN (IF k \in DOMAIN raw THEN Some(raw[k].obj) ELSE Undefined)
                        ELSE unwrap(raw[k])]]

\* operate-env.ts:23-34  entrySchema.parse: a record with an issue is
\* rejected; otherwise the declared keys are taken over, an absent optional
\* key stays undefined, and undeclared keys are stripped.
validateEntry(raw) ==
    IF issues(raw) # {} THEN Throw("ZodError")
    ELSE [called |-> TRUE, ok |-> TRUE,
          entry |-> [k \in DOMAIN requiredKeys \cup buildOutputKeys |->
                        IF k \in buildOutputKeys
                        THEN (IF k \in DOMAIN raw THEN Some(raw[k].obj) ELSE Undefined)
                        ELSE unwrap(raw[k])]]

\* The entries main can return (operate-env.ts:110-116), and each of them
\* with any of the build outputs added.
MainEntries ==
    {mkEntry(p, jobId(n), jobArn(n), w, a) :
        p \in PrNumbers, n \in 1..MaxJobs, w \in Digests, a \in Digests}
ExtendedEntries ==
    {[e EXCEPT !.generalBuildOutput = g, !.tfBuildOutput = t, !.runTaskBuildOutput = r] :
        e \in MainEntries,
        g \in {Undefined} \cup {Some(x) : x \in GeneralBuildOutputs},
        t \in {Undefined} \cup {Some(x) : x \in TfBuildOutputs},
        r \in {Undefined} \cup {Some(x) : x \in RunTaskBuildOutputs}}

SchemaInit ==
    /\ now = 0
    /\ MainIdle
    /\ CommentIdle
    /\ BotIdle
    /\ entry \in ExtendedEntries
    /\ resp = [builds |-> Undefined]
    /\ res = NoResult
    /\ returned = "none"
    /\ calls = 0
    /\ rawEntry = Undefined
    /\ validated = NoResult

\* The entry is put into the store and read back.
EntryPut ==
    /\ rawEntry = Undefined
    /\ \E u \in Uuids : rawEntry' = Some(storeItem(u, entry))
    /\ UNCHANGED <<now, validated, updateVars, mainVars, commentVars, botVars>>

\* The record read back lacks a key of the entry.
EntryLosesKey ==
    /\ rawEntry # Undefined
    /\ validated = NoResult
    /\ \E k \in DOMAIN rawEntry.v \ {"uuid"} :
          rawEntry' = Some([j \in DOMAIN rawEntry.v \ {k} |-> rawEntry.v[j]])
    /\ UNCHANGED <<now, validated, updateVars, mainVars, commentVars, botVars>>

\* The record read back is validated.
EntryValidate ==
    /\ rawEntry # Undefined
    /\ validated = NoResult
    /\ validated' = validateEntry(rawEntry.v)
    /\ UNCHANGED <<now, rawEntry, updateVars, mainVars, commentVars, botVars>>

SchemaNext == EntryPut \/ EntryLosesKey \/ EntryValidate

SpecSchema == SchemaInit /\ [][SchemaNext]_vars

\* C12: validating the persisted form of an entry main can return, with or
\* without build outputs, succeeds and yields an entry equal to the
\* original; a record that lacks one of prNumber, buildId, buildArn,
\* webImageDigest, apiImageDigest is rejected.
C12_RoundTrip ==
    validated.called =>
        /\ (DOMAIN rawEntry.v \ {"uuid"} = DOMAIN serialize(entry)) =>
              /\ validated.ok
              /\ validated.entry = entry
        /\ (\E k \in DOMAIN requiredKeys : k \notin DOMAIN rawEntry.v) => ~validated.ok

C12_ExtendedEntryReadBack ==
    /\ validated.called
    /\ validated.ok
    /\ validated.entry = entry
    /\ entry.tfBuildOutput # Undefined
    /\ entry.runTaskBuildOutput # Undefined
    /\ entry.generalBuildOutput = Undefined
    /\ "uuid" \in DOMAIN rawEntry.v

\* ------------------------------------------- reconciliation of one entry
\* The reconciler calls update on a stored entry again and again while the
\* external job client's answer for the entry's build changes under it.
UpdateInit ==
    /\ now = 0
    /\ entry \in StoredEntries
    /\ resp \in BatchGetBuildsOutputs
    /\ res = NoResult
    /\ returned = "none"
    /\ calls = 0
    /\ MainIdle
    /\ CommentIdle
    /\ SchemaIdle
    /\ BotIdle

Update ==
    /\ calls < MaxCalls
    /\ res' = update(entry, resp)
    /\ returned' = IF res'.ok THEN res'.status ELSE returned
    /\ calls' = calls + 1
    /\ UNCHANGED <<now, entry, resp, mainVars, commentVars, schemaVars, botVars>>

JobChanged(r) ==
    /\ r # resp
    /\ resp' = r
    /\ res' = NoResult
    /\ calls' = 0
    /\ UNCHANGED <<now, entry, returned, mainVars, commentVars, schemaVars, botVars>>

JobBuildsAppear ==
    /\ resp.builds = Undefined
    /\ JobChanged([builds |-> Some(<<>>)])

JobBuildsVanish ==
    /\ resp.builds # Undefined
    /\ JobChanged([builds |-> Undefined])

JobAppend ==
    /\ resp.builds # Undefined
    /\ LET builds == resp.builds.v IN
       /\ Len(builds) < MaxBuilds
       /\ Len(builds) > 0 => builds[Len(builds)] \in EarlierBuilds
       /\ \E b \in NewBuilds : JobChanged([builds |-> Some(Append(builds, b))])

JobDropLast ==
    /\ resp.builds # Undefined
    /\ Len(resp.builds.v) > 0
    /\ JobChanged([builds |-> Some(SubSeq(resp.builds.v, 1, Len(resp.builds.v) - 1))])

JobLastChanges ==
    /\ resp.builds # Undefined
    /\ Len(resp.builds.v) > 0
    /\ LET builds == resp.builds.v
           n == Len(builds)
       IN  \E b \in {[builds[n] EXCEPT !.buildStatus = x] : x \in Opt(BuildStatusStrings)}
                \cup {[builds[n] EXCEPT !.startTime = x] : x \in Opt(Times)}
                \cup {[builds[n] EXCEPT !.endTime = x] : x \in Opt(Times)}
                \cup {[builds[n] EXCEPT !.logs = x] : x \in Opt(LogsLocations)} :
               JobChanged([builds |-> Some([builds EXCEPT ![n] = b])])

UpdateNext ==
    \/ Update
    \/ JobBuildsAppear
    \/ JobBuildsVanish
    \/ JobAppend
    \/ JobDropLast
    \/ JobLastChanges

SpecUpdate == UpdateInit /\ [][UpdateNext]_vars

\* ------------------------------------------------------ rendering a comment
SpecCommentInit ==
    /\ now = 0
    /\ MainIdle
    /\ entry = Undefined
    /\ resp = [builds |-> Undefined]
    /\ res = NoResult
    /\ returned = "none"
    /\ calls = 0
    /\ CommentInit
    /\ SchemaIdle
    /\ BotIdle

SpecCommentNext == ConstructComment

SpecComment == SpecCommentInit /\ [][SpecCommentNext]_vars

\* C9: constructComment returns a comment, and never raises, for every
\* schema-valid entry and every values record.
C9_NeverRaises == comment.called => comment.ok

\* The elements of a list that are lines, and the names of those lines.
IsLine(el) == "line" \in DOMAIN el
Falsy == {Undefined, Null, Some("")}
lineNames(list) == {list[i].line : i \in {k \in 1..Len(list) : IsLine(list[k])}}
falsyCount(list) == Cardinality({k \in 1..Len(list) : ~IsLine(list[k])})
body == comment.hints[1].body.main

\* Each line about an optional member is there exactly when the member is,
\* and the lines that interpolate a nullable string hold a string.
LinesOnlyOfPresent ==
    /\ "buildTime" \in lineNames(comment.main) <=> ~IsNullish(cValues.builtInfo)
    /\ "api" \in lineNames(comment.main) <=> ~IsNullish(cEntry.tfBuildOutput)
    /\ "web" \in lineNames(comment.main) <=> ~IsNullish(cEntry.tfBuildOutput)
    /\ "ecsCluster" \in lineNames(body) <=> ~IsNullish(cEntry.tfBuildOutput)
    /\ "infraVersion" \in lineNames(body) <=> ~IsNullish(cEntry.generalBuildOutput)
    /\ "runTaskLog" \in lineNames(body) <=>
          (~IsNullish(cEntry.tfBuildOutput) /\ ~IsNullish(cEntry.runTaskBuildOutput))
    /\ "deepLogLink" \in lineNames(body) <=>
          (~IsNullish(cValues.deepLogLink) /\ cValues.deepLogLink.v # "")
    /\ \A i \in 1..Len(body) :
          /\ (IsLine(body[i]) /\ body[i].line = "deepLogLink") =>
                body[i].deepLogLink \notin {"undefined", "null", ""}
          /\ (IsLine(body[i]) /\ body[i].line = "runTaskLog") =>
                body[i].runTaskBuildOutput \notin {"undefined", "null", ""}

\* C10 as claimed: in the comment constructComment returns, no element of
\* main or of the hints body is null, undefined, false or an empty string,
\* and the lines about the optional members appear only when they are present.
C10_AbsentOmitted ==
    (comment.called /\ comment.ok) =>
        /\ \A i \in 1..Len(comment.main) : comment.main[i] \notin Falsy
        /\ \A i \in 1..Len(body) : body[i] \notin Falsy
        /\ LinesOnlyOfPresent

\* C10 as amended: the lines about the optional members appear only when
\* they are present and interpolate no absent value; an absent tfBuildOutput
\* or runTaskBuildOutput leaves no element, and an absent builtInfo,
\* generalBuildOutput or deepLogLink leaves its own falsy value (null,
\* undefined or the empty string) as the element in place of its line.
C10_AbsentLeavesNoLine ==
    (comment.called /\ comment.ok) =>
        /\ LinesOnlyOfPresent
        /\ \A i \in 1..Len(comment.main) :
              \/ IsLine(comment.main[i])
              \/ IsNullish(cValues.builtInfo) /\ comment.main[i] = cValues.builtInfo
        /\ \A i \in 1..Len(body) :
              \/ IsLine(body[i])
              \/ /\ IsNullish(cEntry.generalBuildOutput)
                 /\ body[i] = cEntry.generalBuildOutput
              \/ /\ cValues.deepLogLink \in Falsy
                 /\ body[i] = cValues.deepLogLink
        /\ falsyCount(comment.main) = IF IsNullish(cValues.builtInfo) THEN 1 ELSE 0
        /\ falsyCount(body) =
              (IF IsNullish(cEntry.generalBuildOutput) THEN 1 ELSE 0)
              + (IF "deepLogLink" \in lineNames(body) THEN 0 ELSE 1)

\* The place of each line in the order the contract fixes.
mainOrder == <<"buildStatus", "buildTime", "api", "web">>
bodyOrder ==
    <<"buildId", "ecsCluster", "webImageDigest", "apiImageDigest", "infraVersion",
      "runTaskLog", "deepLogLink">>
rank(order, name) == CHOOSE k \in 1..Len(order) : order[k] = name

\* The lines of a list stand in the given order, none of them twice.
InOrder(list, order) ==
    \A i, j \in 1..Len(list) :
        (i < j /\ IsLine(list[i]) /\ IsLine(list[j])) =>
            /\ list[i].line \in {order[k] : k \in 1..Len(order)}
            /\ list[j].line \in {order[k] : k \in 1..Len(order)}
            /\ rank(order, list[i].line) < rank(order, list[j].line)

\* C11: in every comment constructComment returns, the build-status line is
\* the first element of main, followed by the build-time line and the api and
\* web lines as far as present; the lines of the hints body stand in the order
\* build id, ECS cluster, web digest, API digest, infra version, RunTask log,
\* deep log link, whichever are present.
C11_LineOrderFixed ==
    (comment.called /\ comment.ok) =>
        /\ IsLine(comment.main[1])
        /\ comment.main[1].line = "buildStatus"
        /\ InOrder(comment.main, mainOrder)
        /\ IsLine(body[1])
        /\ body[1].line = "buildId"
        /\ InOrder(body, bodyOrder)

C11_EveryLinePresent ==
    /\ comment.called
    /\ comment.ok
    /\ lineNames(comment.main) = {"buildStatus", "buildTime", "api", "web"}
    /\ Cardinality(lineNames(body)) = 7

C10_AllOptionalAbsent ==
    /\ comment.called
    /\ comment.ok
    /\ cValues.builtInfo = Null
    /\ cValues.deepLogLink = Some("")
    /\ cEntry.generalBuildOutput = Undefined
    /\ cEntry.tfBuildOutput = Undefined
    /\ cEntry.runTaskBuildOutput # Undefined
    /\ Len(comment.main) = 2
    /\ Len(body) = 5

\* The last build of an answer, if it has one.
lastBuild(r) ==
    IF IsNullish(r.builds) \/ Len(r.builds.v) = 0 THEN Undefined
    ELSE Some(r.builds.v[Len(r.builds.v)])

\* The status string of the last build, if the answer has one.
lastBuildStatus(r) ==
    IF lastBuild(r) = Undefined THEN Undefined ELSE lastBuild(r).v.buildStatus

\* C1: whenever update returns on a job record whose last build status is a
\* string, the status is 'success' exactly for SUCCEEDED, 'failure' exactly
\* for FAILED and 'undone' for every other string.
C1_StatusOfEveryString ==
    (res.called /\ res.ok) =>
        res.status = (CASE lastBuildStatus(resp) = Some("SUCCEEDED") -> "success"
                        [] lastBuildStatus(resp) = Some("FAILED") -> "failure"
                        [] OTHER -> "undone")

\* The final states of a CodeBuild build other than SUCCEEDED and FAILED.
OtherFinalStatuses == {"STOPPED", "TIMED_OUT", "FAULT"}

\* C18: every call of update that returns while the job's last build is in a
\* final state other than SUCCEEDED and FAILED returns 'undone', with no
\* build info, so the status last returned for the entry is 'undone' and
\* never a terminal one, however many calls are made; the status table maps
\* each of STOPPED, TIMED_OUT and FAULT to 'undone'.
C18_OtherFinalUndone ==
    /\ \A s \in OtherFinalStatuses : resultStatus([buildStatus |-> Some(s)]) = "undone"
    /\ (res.called /\ res.ok /\ lastBuildStatus(resp) \in {Some(s) : s \in OtherFinalStatuses})
          => /\ res.status = "undone"
             /\ returned = "undone"
             /\ res.values.builtInfo = Null

C18_StoppedPolledAgain ==
    /\ calls >= 2
    /\ res.called
    /\ res.ok
    /\ lastBuildStatus(resp) = Some("STOPPED")
    /\ lastBuild(resp).v.endTime # Undefined
    /\ returned = "undone"

Malformed(r) ==
    \/ r.builds = Undefined
    \/ r.builds.v = <<>>
    \/ lastBuild(r).v.buildStatus \notin {Some(x) : x \in BuildStatusStrings}
    \/ r.builds.v[1].startTime \notin {Some(t) : t \in Times}
    \/ lastBuild(r).v.startTime \notin {Some(t) : t \in Times}

\* C4: on a malformed job record update throws; it returns no result, and so
\* no 'undone', even when the status string is a recognized one.
C4_MalformedThrows == (res.called /\ Malformed(resp)) => ~res.ok

C4_ThrewOnRecognizedStatus ==
    /\ res.called
    /\ ~res.ok
    /\ lastBuildStatus(resp) = Some("SUCCEEDED")
    /\ Len(resp.builds.v) = 2
    /\ resp.builds.v[1].startTime = Undefined
    /\ resp.builds.v[2].startTime # Undefined

\* C7: in every result of update, builtInfo is populated, with a non-empty
\* timeRange, exactly when the status is 'success'; otherwise it is null.
C7_BuiltInfoIffSuccess ==
    (res.called /\ res.ok) =>
        IF res.status = "success"
        THEN ~IsNullish(res.values.builtInfo) /\ res.values.builtInfo.v.timeRange # ""
        ELSE res.values.builtInfo = Null

C7_SuccessWithBuiltInfo ==
    /\ res.called
    /\ res.ok
    /\ res.status = "success"
    /\ ~IsNullish(res.values.builtInfo)

\* C8: the entry in every result of update is the entry passed in.
C8_EntryUnchanged == (res.called /\ res.ok) => res.entry = entry

C8_EntryWithOutputsReturned ==
    /\ calls >= 2
    /\ res.ok
    /\ entry.tfBuildOutput # Undefined
    /\ res.entry.buildId = entry.buildId

\* ---------------------------------------------------------- the dispatcher
\* The dispatcher is not among the sources; it is modelled from its
\* contract: it invokes main, persists the entry under the invocation's
\* uuid, renders with constructComment and posts; when main fails it
\* persists nothing and posts a failure comment.  Each call it awaits is a
\* step, and a dispatch that takes no further step has crashed.

\* The values as the renderer reads them: a member main leaves out reads as
\* undefined.
readValues(values) ==
    [buildStatus |-> values.buildStatus,
     statusChangedAt |-> values.statusChangedAt,
     deepLogLink |-> IF "deepLogLink" \in DOMAIN values THEN values.deepLogLink
                     ELSE Undefined,
     builtInfo |-> IF "builtInfo" \in DOMAIN values THEN values.builtInfo ELSE Undefined]

\* The comment of a command, as posted or edited after a call returned.
commandComment(result, reconciled) ==
    [kind |-> "command", status |-> result.status, reconciled |-> reconciled,
     rendered |-> constructComment(result.entry, readValues(result.values))]

\* The failure comment, rendered apart from the command's renderer.
failureComment(error) == [kind |-> "failure", error |-> error]

\* A dispatch begins: main is invoked with a uuid generated for it.
DispatchInvoke ==
    /\ MainInvoke
    /\ store[ctx'.uuid] = Undefined
    /\ posted[ctx'.uuid] = Undefined

\* A slip: the comment is posted as soon as main has returned.
DispatchPost_Early ==
    /\ pc = "done"
    /\ mainRes.called
    /\ mainRes.ok
    /\ posted[ctx.uuid] = Undefined
    /\ posted' = [posted EXCEPT ![ctx.uuid] = Some(commandComment(mainRes, FALSE))]
    /\ UNCHANGED <<now, store, jobRecord, passes, updateVars, mainVars, commentVars,
                   schemaVars>>

\* main has returned: the entry is put under the uuid.
DispatchPersist ==
    /\ pc = "done"
    /\ mainRes.called
    /\ mainRes.ok
    /\ store[ctx.uuid] = Undefined
    /\ store' = [store EXCEPT ![ctx.uuid] = Some(storeItem(ctx.uuid, mainRes.entry))]
    /\ UNCHANGED <<now, posted, jobRecord, passes, updateVars, mainVars, commentVars,
                   schemaVars>>

\* The entry is persisted: the comment is rendered and posted.
DispatchPost ==
    /\ pc = "done"
    /\ mainRes.called
    /\ mainRes.ok
    /\ store[ctx.uuid] # Undefined
    /\ posted[ctx.uuid] = Undefined
    /\ posted' = [posted EXCEPT ![ctx.uuid] = Some(commandComment(mainRes, FALSE))]
    /\ UNCHANGED <<now, store, jobRecord, passes, updateVars, mainVars, commentVars,
                   schemaVars>>

\* main has thrown: the failure comment is posted, nothing is persisted.
DispatchPostFailure ==
    /\ pc = "done"
    /\ mainRes.called
    /\ ~mainRes.ok
    /\ posted[ctx.uuid] = Undefined
    /\ posted' = [posted EXCEPT ![ctx.uuid] = Some(failureComment(mainRes.error))]
    /\ UNCHANGED <<now, store, jobRecord, passes, updateVars, mainVars, commentVars,
                   schemaVars>>

DispatchNext ==
    \/ DispatchInvoke
    \/ MainApiImage
    \/ MainWebImage
    \/ MainStartBuild
    \/ DispatchPersist
    \/ DispatchPost
    \/ DispatchPostFailure

SpecDispatch == Init /\ [][DispatchNext]_vars

IsCommandComment(c) == c # Undefined /\ c.v.kind = "command"

\* C16: in every state, a posted command comment has a backing entry in the
\* store, persisted under the uuid of its dispatch and valid under the entry
\* schema, and it is the entry the comment renders; an invocation of main
\* that has failed has persisted no entry under its uuid.
C16_WriteBeforeNotify ==
    /\ \A u \in Uuids :
          IsCommandComment(posted[u]) =>
              /\ store[u] # Undefined
              /\ store[u].v.uuid = JStr(u)
              /\ validateEntry(store[u].v).ok
              /\ posted[u].v.rendered.ok
              /\ posted[u].v.rendered.hints[1].body.main[1].buildId
                    = validateEntry(store[u].v).entry.buildId
    /\ (pc = "done" /\ mainRes.called /\ ~mainRes.ok) => store[ctx.uuid] = Undefined

C16_PostedAndFailed ==
    \E u, w \in Uuids :
        /\ IsCommandComment(posted[u])
        /\ store[u] # Undefined
        /\ posted[w] # Undefined
        /\ posted[w].v.kind = "failure"
        /\ store[w] = Undefined

\* ---------------------------------------------------------- the reconciler
\* The reconciler is not among the sources; it is modelled from its
\* contract.  A pass loads the entry by uuid and validates it, calls update,
\* puts the returned entry back under the uuid, and edits the comment when
\* the status differs from the one last rendered or on the first
\* reconciliation.  When update throws, the pass hands the error to its
\* caller and does nothing more.  Passes run side by side, each step a call
\* awaited, while the builds go on changing at the job client.
MaxPasses == 2

\* The two commands dispatched before the passes begin: the entry under
\* uuid-1 as main wrote it, the entry under uuid-2 with the build outputs
\* the script has added to it.
EntryOf(u) ==
    IF u = "uuid-1"
    THEN mkEntry(7, jobId(1), jobArn(1), "sha256:aa", "sha256:bb")
    ELSE [mkEntry(7, jobId(2), jobArn(2), "sha256:bb", "sha256:aa")
            EXCEPT !.generalBuildOutput = Some([sourceZipKey |-> "source.zip"]),
                   !.tfBuildOutput = Some(CHOOSE t \in TfBuildOutputs : TRUE),
                   !.runTaskBuildOutput = Some("task-id")]

\* What the job client may answer for one build: no builds member, or the
\* one build, in flight or succeeded, the latter also without its startTime.
JobAnswers ==
    {[builds |-> Undefined]} \cup
    {[builds |-> Some(<<b>>)] :
        b \in {x \in Builds :
                 /\ x.logs = Undefined
                 /\ x.endTime = Undefined
                 /\ \/ x.buildStatus = Some("IN_PROGRESS") /\ x.startTime = Some(0)
                    \/ x.buildStatus = Some("SUCCEEDED") /\ x.startTime \in {Undefined, Some(0)}}}

\* A slip: update asks for the build started first, whatever the entry.
batchGetBuildsInput_First(e) == [ids |-> <<jobId(1)>>]

\* operate-env.ts:186-189  update asks for the entry's own build.
batchGetBuildsInput(e) == [ids |-> <<e.buildId>>]

\* The job client answers with the record of the build asked for.
batchGetBuilds(input) == jobRecord[input.ids[1]]

\* The comment the dispatcher posted for a command: main's status and values.
dispatchedComment(u) ==
    commandComment([status |-> "undone", entry |-> EntryOf(u),
                    values |-> [buildStatus |-> "IN_PROGRESS",
                                statusChangedAt |-> toTemporalInstant(0)]],
                   FALSE)

ReconcileInit ==
    /\ now = 0
    /\ MainIdle
    /\ CommentIdle
    /\ SchemaIdle
    /\ entry = Undefined
    /\ resp = [builds |-> Undefined]
    /\ res = NoResult
    /\ returned = "none"
    /\ calls = 0
    /\ store = [u \in Uuids |-> Some(storeItem(u, EntryOf(u)))]
    /\ posted = [u \in Uuids |-> Some(dispatchedComment(u))]
    /\ jobRecord \in [{EntryOf(u).buildId : u \in Uuids} -> JobAnswers]
    /\ passes = <<>>

\* A pass after it has loaded and validated what the store holds under u.
loadedPass(u) ==
    LET v == IF store[u] = Undefined THEN Throw("store miss")
             ELSE validateEntry(store[u].v)
    IN  [uuid |-> u,
         pc |-> IF v.ok THEN "loaded" ELSE "failed",
         entry |-> IF v.ok THEN Some(v.entry) ELSE Undefined,
         answer |-> Undefined,
         result |-> NoResult,
         error |-> IF v.ok THEN Undefined ELSE Some(v.error)]

\* A pass after update has returned or thrown on the job client's answer.
updatedPass(p, answer) ==
    LET r == update(p.entry.v, answer)
    IN  [p EXCEPT !.pc = IF r.ok THEN "updated" ELSE "failed",
                  !.answer = Some(answer),
                  !.result = r,
                  !.error = IF r.ok THEN Undefined ELSE Some(r.error)]

\* A pass is scheduled for a command whose last rendered status is not
\* terminal; it loads the entry by uuid and validates it.
PassLoad ==
    /\ Len(passes) < MaxPasses
    /\ \E u \in Uuids :
          /\ IsCommandComment(posted[u])
          /\ posted[u].v.status \notin {"success", "failure"}
          /\ passes' = Append(passes, loadedPass(u))
    /\ UNCHANGED <<now, store, posted, jobRecord, updateVars, mainVars, commentVars,
                   schemaVars>>

\* The pass calls update, which asks the job client and returns or throws.
PassUpdate ==
    /\ \E i \in DOMAIN passes :
          /\ passes[i].pc = "loaded"
          /\ passes' = [passes EXCEPT ![i] =
                            updatedPass(@, batchGetBuilds(batchGetBuildsInput(@.entry.v)))]
    /\ UNCHANGED <<now, store, posted, jobRecord, updateVars, mainVars, commentVars,
                   schemaVars>>

\* The pass puts the entry update returned under the uuid.
PassWrite ==
    /\ \E i \in DOMAIN passes :
          /\ passes[i].pc = "updated"
          /\ store' = [store EXCEPT ![passes[i].uuid] =
                          Some(storeItem(passes[i].uuid, passes[i].result.entry))]
          /\ passes' = [passes EXCEPT ![i].pc = "written"]
    /\ UNCHANGED <<now, posted, jobRecord, updateVars, mainVars, commentVars, schemaVars>>

\* The pass edits the comment if the status differs from the one last
\* rendered or if this is the first reconciliation, and ends.
PassEdit ==
    /\ \E i \in DOMAIN passes :
          LET p == passes[i]
              last == posted[p.uuid].v
          IN  /\ p.pc = "written"
              /\ posted' = IF ~last.reconciled \/ last.status # p.result.status
                           THEN [posted EXCEPT ![p.uuid] =
                                    Some(commandComment(p.result, TRUE))]
                           ELSE posted
              /\ passes' = [passes EXCEPT ![i].pc = "done"]
    /\ UNCHANGED <<now, store, jobRecord, updateVars, mainVars, commentVars, schemaVars>>

\* A build moves on at the job client.
JobRecordChanges ==
    /\ \E b \in DOMAIN jobRecord, a \in JobAnswers :
          /\ a # jobRecord[b]
          /\ jobRecord' = [jobRecord EXCEPT ![b] = a]
    /\ UNCHANGED <<now, store, posted, passes, updateVars, mainVars, commentVars,
                   schemaVars>>

ReconcileNext ==
    \/ PassLoad
    \/ PassUpdate
    \/ PassWrite
    \/ PassEdit
    \/ JobRecordChanges

SpecReconcile == ReconcileInit /\ [][ReconcileNext]_vars

\* What belongs to the command under u: its record, its comment, its build
\* at the job client and its passes.
PassesOf(u) == SelectSeq(passes, LAMBDA p : p.uuid = u)
Own(u) == <<store[u], posted[u], jobRecord[EntryOf(u).buildId], PassesOf(u)>>

\* C14: every step changes what belongs to one command only; the record
\* stored under a uuid stays that command's entry; and what update returns
\* or throws in a pass is what it yields on that command's entry and the
\* answer for that entry's own build, whatever the other command's passes
\* and build have done.
C14_EntriesIndependent ==
    [][/\ \A u, w \in Uuids : (u # w /\ Own(u)' # Own(u)) => (Own(w)' = Own(w))
       /\ \A u \in Uuids : store'[u] = Some(storeItem(u, EntryOf(u)))
       /\ \A i \in DOMAIN passes :
            (passes[i].pc = "loaded" /\ passes'[i] # passes[i]) =>
                /\ passes'[i].answer = Some(jobRecord[EntryOf(passes[i].uuid).buildId])
                /\ passes'[i].result
                      = update(EntryOf(passes[i].uuid),
                               jobRecord[EntryOf(passes[i].uuid).buildId])]_vars

C14_BothReconciled ==
    \E i, j \in DOMAIN passes :
        /\ passes[i].uuid = "uuid-1"
        /\ passes[j].uuid = "uuid-2"
        /\ passes[i].pc = "done"
        /\ passes[j].pc = "done"
        /\ passes[i].result.status = "success"
        /\ passes[j].result.status = "undone"

\* C15: under every interleaving of passes on one entry, and of changes of
\* its build between their reads, the record stored under the uuid is at
\* all times the whole item of the entry stored when the passes began: it
\* validates, and to that entry.
C15_LastWriteWins ==
    \A u \in Uuids :
        /\ store[u] # Undefined
        /\ store[u].v = storeItem(u, EntryOf(u))
        /\ validateEntry(store[u].v).ok
        /\ validateEntry(store[u].v).entry = EntryOf(u)

C15_TwoPassesWrote ==
    \E i, j \in DOMAIN passes :
        /\ i # j
        /\ passes[i].uuid = "uuid-2"
        /\ passes[j].uuid = "uuid-2"
        /\ passes[i].pc \in {"written", "done"}
        /\ passes[j].pc \in {"written", "done"}
        /\ passes[i].result.status # passes[j].result.status

\* C17: a pass in which update throws on the job client's answer ends
\* failed with update's error handed to its caller, and that step and all
\* later ones of the pass leave the comment and the stored record as they
\* were.
C17_FailedPassLeavesState ==
    [][\A i \in DOMAIN passes :
        /\ (/\ passes[i].pc = "loaded"
            /\ passes'[i] # passes[i]
            /\ Malformed(jobRecord[passes[i].entry.v.buildId])) =>
                /\ passes'[i].pc = "failed"
                /\ passes'[i].error
                      = Some(updateError(jobRecord[passes[i].entry.v.buildId]).v)
                /\ store' = store
                /\ posted' = posted
        /\ (passes[i].pc = "failed") => (passes'[i] = passes[i])]_vars

C17_FailedAfterRendering ==
    \E i \in DOMAIN passes :
        /\ passes[i].pc = "failed"
        /\ passes[i].error = Some("TypeError: CodeBuild first startTime is not found")
        /\ posted[passes[i].uuid].v.reconciled
        /\ posted[passes[i].uuid].v.status = "success"

====
